---- MODULE Spec2Model ----
(***************************************************************************)
(* Model of the BSE announcements fetcher (scrapper_bse.py) and of the two *)
(* HTTP facades that expose it (app.py get_bse, api/bse.py today_only).    *)
(*                                                                         *)
(* One facade request is a sequential process.  Every upstream data        *)
(* request (the GET and the POST of _try_request) is one step whose        *)
(* response is chosen by the environment; everything the code does between *)
(* two upstream requests belongs to the step that received the response.   *)
(***************************************************************************)
EXTENDS Integers, Sequences, FiniteSets, TLC

VARIABLES today, store, handler, pc, arg, calls, rets, f, t, max_pages,
          page, url, vi, got_any, all_rows, naccum, req_pages,
          yielded_pages, page_start_len, short_seen, exch, response

vars == <<today, store, handler, pc, arg, calls, rets, f, t, max_pages,
          page, url, vi, got_any, all_rows, naccum, req_pages,
          yielded_pages, page_start_len, short_seen, exch, response>>

-----------------------------------------------------------------------------
(* Bounds of the model *)

\* largest max_pages a caller passes to a facade
MaxPagesIn == 2
\* longest row list handed to the deduplication step on its own
MaxLen == 4

(* Program constants *)

\* "if len(rows_raw) < 20"
PAGE_SIZE == 20
\* "dedup[:200]"
ROW_CAP == 200
\* "max_pages + 2"
EXTRA_PAGES == 2

-----------------------------------------------------------------------------
(* Python / JSON values: a tag and a payload *)

Null      == [t |-> "null", v |-> 0]
Str(s)    == [t |-> "str",  v |-> s]
Num(n)    == [t |-> "int",  v |-> n]
List(s)   == [t |-> "list", v |-> s]
Dict(fn)  == [t |-> "dict", v |-> fn]
\* the result of an f-string "prefix{x}"
Url(p, x) == [t |-> "url",  v |-> <<p, x>>]
EmptyDict == Dict(<<>>)

\* Python truthiness ("if x", "not x")
Truthy(x) ==
    CASE x.t = "null" -> FALSE
      [] x.t = "str"  -> x.v # ""
      [] x.t = "int"  -> x.v # 0
      [] x.t = "list" -> Len(x.v) > 0
      [] x.t = "dict" -> DOMAIN x.v # {}
      [] OTHER        -> TRUE

\* values a set can hold
Hashable(x) == x.t \notin {"list", "dict"}

\* "k in d" raises TypeError for these
NotIterable(x) == x.t \in {"int", "null"}

\* the strings of the model that start with "http", ignoring case
HttpStrings == {"http://cdn/a.pdf", "HTTPS://cdn/b.pdf"}

\* results of calls that may raise
Ok(x)     == [ok |-> TRUE,  val |-> x]
Raise(e)  == [ok |-> FALSE, val |-> e]

-----------------------------------------------------------------------------
(* to_site_date: date strings are three numbers and a separator *)

EmptyDateStr == [a |-> 0, s |-> "", b |-> 0, c |-> 0]
DateStr(a, s, b, c) == [a |-> a, s |-> s, b |-> b, c |-> c]

IsLeap(y) == (y % 4 = 0 /\ y % 100 # 0) \/ y % 400 = 0
DaysIn(m, y) ==
    IF m = 2 THEN (IF IsLeap(y) THEN 29 ELSE 28)
    ELSE IF m \in {4, 6, 9, 11} THEN 30 ELSE 31
ValidDate(d, m, y) ==
    /\ y \in 1000..9999
    /\ m \in 1..12
    /\ d \in 1..DaysIn(m, y)

\* strftime("%d/%m/%Y")
strftime_dmy(d) == DateStr(d.d, "/", d.m, d.y)

\* strptime(s, fmt) for each of DATE_FORMATS, in order; NoDate on ValueError
NoDate == [d |-> 0, m |-> 0, y |-> 0]
strptime(s, fmt) ==
    CASE fmt = "%Y-%m-%d" ->
           IF s.s = "-" /\ ValidDate(s.c, s.b, s.a)
           THEN [d |-> s.c, m |-> s.b, y |-> s.a] ELSE NoDate
      [] fmt = "%d/%m/%Y" ->
           IF s.s = "/" /\ ValidDate(s.a, s.b, s.c)
           THEN [d |-> s.a, m |-> s.b, y |-> s.c] ELSE NoDate
      [] fmt = "%d-%m-%Y" ->
           IF s.s = "-" /\ ValidDate(s.a, s.b, s.c)
           THEN [d |-> s.a, m |-> s.b, y |-> s.c] ELSE NoDate
      [] fmt = "%Y/%m/%d" ->
           IF s.s = "/" /\ ValidDate(s.c, s.b, s.a)
           THEN [d |-> s.c, m |-> s.b, y |-> s.a] ELSE NoDate

DATE_FORMATS == <<"%Y-%m-%d", "%d/%m/%Y", "%d-%m-%Y", "%Y/%m/%d">>

RECURSIVE to_site_date_from(_, _)
to_site_date_from(s, i) ==
    IF i > Len(DATE_FORMATS) THEN Raise("ValueError")
    ELSE LET d == strptime(s, DATE_FORMATS[i]) IN
         IF d # NoDate THEN Ok(strftime_dmy(d))
         ELSE to_site_date_from(s, i + 1)

to_site_date(s, now) ==
    IF s = EmptyDateStr THEN Ok(strftime_dmy(now))
    ELSE to_site_date_from(s, 1)

\* date - timedelta(days=1)
PrevDay(d) ==
    IF d.d > 1 THEN [d |-> d.d - 1, m |-> d.m, y |-> d.y]
    ELSE IF d.m > 1 THEN [d |-> DaysIn(d.m - 1, d.y), m |-> d.m - 1, y |-> d.y]
    ELSE [d |-> 31, m |-> 12, y |-> d.y - 1]

\* today_ddmmyyyy_ist
today_ddmmyyyy_ist(now) == strftime_dmy(now)

-----------------------------------------------------------------------------
(* Row normalisation *)

RECURSIVE _safe_get_from(_, _, _, _)
_safe_get_from(d, keys, i, default) ==
    IF i > Len(keys) THEN default
    ELSE IF /\ keys[i] \in DOMAIN d
            /\ d[keys[i]] # Null
            /\ d[keys[i]] # Str("")
         THEN d[keys[i]]
         ELSE _safe_get_from(d, keys, i + 1, default)

\* d is a raw row: a dict, or a list (which holds none of the keys)
_safe_get(d, keys, default) ==
    IF d.t = "dict" THEN _safe_get_from(d.v, keys, 1, default) ELSE default

\* str(x) == "1"
StrIsOne(x) == x = Num(1) \/ x = Str("1")

_make_pdf_url(row) ==
    LET att == _safe_get(row, <<"ATTACHMENTNAME", "ATTACHMENT", "FILE">>, Null) IN
    IF ~Truthy(att) THEN Null
    ELSE IF att.t = "str" /\ att.v \in HttpStrings THEN att
    ELSE LET pdfflag == _safe_get(row, <<"PDFFLAG", "pdfflag">>, Num(0)) IN
         IF StrIsOne(pdfflag)
         THEN Url("https://www.bseindia.com/xml-data/corpfiling/AttachHis/", att)
         ELSE Url("https://www.bseindia.com/xml-data/corpfiling/AttachLive/", att)

\* str(x): a string as it is, a number in decimal; the text of any other
\* value is kept as that value, and is never empty nor changed by strip()
PyStr(x) ==
    CASE x.t = "str" -> x
      [] x.t = "int" -> Str(ToString(x.v))
      [] OTHER       -> [t |-> "repr", v |-> x]

\* s.strip() on the strings of the model: those with whitespace around them
strip(x) ==
    CASE x = Str(" ")     -> Str("")
      [] x = Str(" 500 ") -> Str("500")
      [] OTHER            -> x

_make_detail_url(row) ==
    LET newsid == _safe_get(row, <<"NEWSID", "newsid">>, Null)
        scrip  == strip(PyStr(_safe_get(row, <<"SCRIP_CD", "Scripcode", "scripcode">>,
                                        Str(""))))
    IN  IF Truthy(newsid) /\ Truthy(scrip)
        THEN Url("https://m.bseindia.com/MAnnDet.aspx?Form=STR", <<newsid, scrip>>)
        ELSE Null

normalize_row(r) ==
    [datetime    |-> _safe_get(r, <<"DT_TM", "DtTm", "NEWS_DT">>, Null),
     scrip_code  |-> _safe_get(r, <<"SCRIP_CD", "Scripcode", "scripcode">>, Null),
     scrip_name  |-> _safe_get(r, <<"S_LONGNAME", "SLONGNAME", "SCRIPNAME", "Scripname">>, Null),
     headline    |-> _safe_get(r, <<"NEWSSUB", "HEADLINE", "NEWS_SUB">>, Null),
     category    |-> _safe_get(r, <<"CATEGORYNAME", "CATEGORY">>, Null),
     subcategory |-> _safe_get(r, <<"SUBCATEGORYNAME", "SUBCAT">>, Null),
     news_id     |-> _safe_get(r, <<"NEWSID", "newsid">>, Null),
     pdf_url     |-> _make_pdf_url(r),
     detail_url  |-> _make_detail_url(r)]

\* "all_rows.extend(normalize_row(r) for r in rows_raw)": TypeError on a row
\* that is no container
normalize_rows(rows_raw) ==
    IF \E i \in DOMAIN rows_raw : NotIterable(rows_raw[i])
    THEN Raise("TypeError")
    ELSE Ok([i \in DOMAIN rows_raw |-> normalize_row(rows_raw[i])])

-----------------------------------------------------------------------------
(* _extract_rows *)

ENVELOPE_KEYS == <<"Table", "table", "data", "Data">>

RECURSIVE _extract_rows_from(_, _)
_extract_rows_from(payload, i) ==
    IF i > Len(ENVELOPE_KEYS)
    THEN IF /\ "d" \in DOMAIN payload.v
            /\ payload.v["d"].t = "dict"
            /\ "Table" \in DOMAIN payload.v["d"].v
            /\ payload.v["d"].v["Table"].t = "list"
         THEN payload.v["d"].v["Table"].v
         ELSE <<>>
    ELSE IF /\ ENVELOPE_KEYS[i] \in DOMAIN payload.v
            /\ payload.v[ENVELOPE_KEYS[i]].t = "list"
         THEN payload.v[ENVELOPE_KEYS[i]].v
         ELSE _extract_rows_from(payload, i + 1)

\* an extraction that looks under d.Table before the four keys
_extract_rows_nested_first(payload) ==
    IF payload.t # "dict" THEN <<>>
    ELSE IF /\ "d" \in DOMAIN payload.v
            /\ payload.v["d"].t = "dict"
            /\ "Table" \in DOMAIN payload.v["d"].v
            /\ payload.v["d"].v["Table"].t = "list"
         THEN payload.v["d"].v["Table"].v
         ELSE _extract_rows_from(payload, 1)

_extract_rows(payload) ==
    IF payload.t # "dict" THEN <<>> ELSE _extract_rows_from(payload, 1)

-----------------------------------------------------------------------------
(* Deduplication by news_id: the loop state is (seen, out) *)

DedupStart == [raised |-> FALSE, seen |-> {}, out |-> <<>>]

\* a loop step that forgets to look the id up in seen
dedup_step_keep_all(st, r) ==
    LET nid == r.news_id IN
    IF ~Truthy(nid) THEN st
    ELSE IF ~Hashable(nid) THEN [st EXCEPT !.raised = TRUE]
    ELSE [st EXCEPT !.seen = st.seen \cup {nid},
                    !.out = Append(st.out, r)]

\* app.py: "if nid and nid not in seen: seen.add(nid); dedup.append(r)"
dedup_step_get_bse(st, r) ==
    LET nid == r.news_id IN
    IF ~Truthy(nid) THEN st
    ELSE IF ~Hashable(nid) THEN [st EXCEPT !.raised = TRUE]
    ELSE IF nid \notin st.seen
         THEN [st EXCEPT !.seen = st.seen \cup {nid},
                         !.out = Append(st.out, r)]
         ELSE st

\* api/bse.py: the same loop
dedup_step_today_only(st, r) ==
    LET nid == r.news_id IN
    IF ~Truthy(nid) THEN st
    ELSE IF ~Hashable(nid) THEN [st EXCEPT !.raised = TRUE]
    ELSE IF nid \notin st.seen
         THEN [st EXCEPT !.seen = st.seen \cup {nid},
                         !.out = Append(st.out, r)]
         ELSE st

\* scrapper_bse.py __main__: "if not nid or nid in seen: continue"
dedup_step_main(st, r) ==
    LET nid == r.news_id IN
    IF ~Truthy(nid) THEN st
    ELSE IF ~Hashable(nid) THEN [st EXCEPT !.raised = TRUE]
    ELSE IF nid \in st.seen THEN st
    ELSE [st EXCEPT !.seen = st.seen \cup {nid},
                    !.out = Append(st.out, r)]

dedup_step(who, st, r) ==
    CASE who = "get_bse"    -> dedup_step_get_bse(st, r)
      [] who = "today_only" -> dedup_step_today_only(st, r)
      [] who = "main"       -> dedup_step_main(st, r)

\* "for r in rows": rows[lo..hi] in order, stopping at an exception
RECURSIVE dedup_range(_, _, _, _, _)
dedup_range(who, rows, lo, hi, st) ==
    IF lo > hi \/ st.raised THEN st
    ELSE IF lo = hi THEN dedup_step(who, st, rows[lo])
    ELSE LET mid == (lo + hi) \div 2
             s1  == dedup_range(who, rows, lo, mid, st)
         IN  IF s1.raised THEN s1 ELSE dedup_range(who, rows, mid + 1, hi, s1)

dedup(who, rows) ==
    LET st == dedup_range(who, rows, 1, Len(rows), DedupStart) IN
    IF st.raised THEN Raise("TypeError") ELSE Ok(st.out)

\* "dedup[:n]"
Truncate(rows, n) == IF Len(rows) <= n THEN rows ELSE SubSeq(rows, 1, n)

-----------------------------------------------------------------------------
(* The upstream service *)

ENDPOINTS == <<"https://api.bseindia.com/BseIndiaAPI/api/Ann/w",
               "https://api.bseindia.com/BseIndiaAPI/api/AnnGetData/w">>

\* raw upstream row number i; field names vary from row to row
RawRow(i) ==
    Dict((IF i % 2 = 1 THEN [NEWSID |-> Str("N" \o ToString(i))]
                       ELSE [newsid |-> Str("N" \o ToString(i))])
         @@ [SCRIP_CD |-> IF i % 5 = 3 THEN Str(" 500 ")
                          ELSE IF i % 5 = 4 THEN Str(" ")
                          ELSE Num(500000 + i),
             NEWSSUB  |-> Str("Board meeting")]
         @@ (IF i % 3 = 0 THEN [ATTACHMENTNAME |-> Str("a.pdf"), PDFFLAG |-> Num(i % 2)]
             ELSE IF i % 3 = 1 THEN [ATTACHMENT |-> Str("http://cdn/a.pdf")]
             ELSE <<>>))

IdRow(id) == Dict([NEWSID |-> id, SCRIP_CD |-> Num(500001)])

\* rows that repeat, lack or blank their identifier
DupRows == <<IdRow(Str("A")), IdRow(Str("")), IdRow(Str("A")), IdRow(Str("B")),
             Dict([SCRIP_CD |-> Num(500002)]), List(<<>>), IdRow(Null),
             IdRow(Str("B")), IdRow(Str("C"))>>
\* rows of unexpected shape
BadRows    == <<RawRow(1), Num(7), RawRow(2)>>
UnhashRows == <<RawRow(1), IdRow(List(<<Num(1)>>))>>

\* what the upstream holds for the query: n rows of one kind, served psize
\* rows per page
Stores ==
    [kind : {"plain"}, n : {0, 5, PAGE_SIZE, PAGE_SIZE + 5, 2 * PAGE_SIZE}, psize : {PAGE_SIZE}]
    \cup [kind : {"plain"}, n : {ROW_CAP, ROW_CAP + 1}, psize : {ROW_CAP + 1}]
    \cup {[kind |-> "dup", n |-> Len(DupRows), psize |-> PAGE_SIZE],
          [kind |-> "bad", n |-> Len(BadRows), psize |-> PAGE_SIZE],
          [kind |-> "unhashable", n |-> Len(UnhashRows), psize |-> PAGE_SIZE]}

\* row number i of the store
StoreRow(st, i) ==
    CASE st.kind = "plain"      -> RawRow(i)
      [] st.kind = "dup"        -> DupRows[i]
      [] st.kind = "bad"        -> BadRows[i]
      [] st.kind = "unhashable" -> UnhashRows[i]

Min(a, b) == IF a <= b THEN a ELSE b

\* the rows of page pg
Slice(st, pg) ==
    LET lo == (pg - 1) * st.psize
        hi == Min(pg * st.psize, st.n)
    IN  IF lo >= st.n THEN <<>>
        ELSE [i \in 1..(hi - lo) |-> StoreRow(st, lo + i)]

\* JSON bodies the upstream wraps the rows of a page in
Shapes == {"Table", "data", "d.Table", "Table:str,Data", "table:[],data",
           "rows", "list", "{}", "null"}
Envelope(shape, rows) ==
    CASE shape = "Table"          -> Dict([Table |-> List(rows)])
      [] shape = "data"           -> Dict([data |-> List(rows)])
      [] shape = "d.Table"        -> Dict([d |-> Dict([Table |-> List(rows)])])
      [] shape = "Table:str,Data" -> Dict([Table |-> Str("error"), Data |-> List(rows)])
      [] shape = "table:[],data"  -> Dict([table |-> List(<<>>), data |-> List(rows)])
      [] shape = "rows"           -> Dict([rows |-> List(rows)])
      [] shape = "list"           -> List(rows)
      [] shape = "{}"             -> EmptyDict
      [] shape = "null"           -> Null

NonJson(text) == [json |-> FALSE, val |-> Str(text)]
Json(val)     == [json |-> TRUE,  val |-> val]

Statuses == {200, 300, 404, 500, 600}

\* what sess.get / sess.post can do: raise, or return a response with a
\* status and a body that is JSON or not
Replies ==
    {[raised |-> TRUE, status_code |-> 0, shape |-> "html"]} \cup
    [raised : {FALSE}, status_code : Statuses, shape : Shapes \cup {"html"}]

\* one reply of each kind the loop of fetch_announcements can tell apart
FacadeReplies ==
    {[raised |-> TRUE,  status_code |-> 0,   shape |-> "html"],
     [raised |-> FALSE, status_code |-> 500, shape |-> "Table"],
     [raised |-> FALSE, status_code |-> 200, shape |-> "html"],
     [raised |-> FALSE, status_code |-> 200, shape |-> "Table"],
     [raised |-> FALSE, status_code |-> 300, shape |-> "d.Table"],
     [raised |-> FALSE, status_code |-> 200, shape |-> "rows"],
     [raised |-> FALSE, status_code |-> 200, shape |-> "null"]}

\* the replies enumerated: all of them for _try_request on its own
RepliesTo(who) == IF who = "_try_request" THEN Replies ELSE FacadeReplies

Response(reply, rows) ==
    [raised |-> reply.raised, status_code |-> reply.status_code,
     body |-> IF reply.shape = "html" THEN NonJson("<html>")
              ELSE Json(Envelope(reply.shape, rows))]

-----------------------------------------------------------------------------
(* _param_variants and _try_request *)

_param_variants(segment, subm, f_ddmmyyyy, t_ddmmyyyy, pg, search, category, subcategory) ==
    LET base == [strCat      |-> IF category # "" THEN category ELSE "-1",
                 strSubCat   |-> subcategory,
                 strType     |-> IF segment # "" THEN segment ELSE "C",
                 strFromDate |-> f_ddmmyyyy,
                 strToDate   |-> t_ddmmyyyy,
                 strSearch   |-> search,
                 strScrip    |-> "",
                 pageno      |-> ToString(pg)]
        v1 == [strIsXBRL |-> subm] @@ base
        v2 == [strAnnSubmitType |-> subm] @@ base
        v3 == [strIsXBRL |-> subm, strPrevDate |-> ""] @@ base
    IN  <<v1, v2, v3>>

\* a status test that takes 2xx only
r_ok_2xx(r) == r.status_code \in 200..299

\* requests.Response.ok: raise_for_status() does not raise, which it does
\* for the client and server error statuses 400..599 only
r_ok(r) == r.status_code \notin 400..599

\* the GET block: [returned, val]; not returned = fall through to the POST
_try_request_get(r) ==
    IF ~r.raised /\ r_ok(r) /\ r.body.json
    THEN [returned |-> TRUE, val |-> r.body.val]
    ELSE [returned |-> FALSE, val |-> Null]

\* the POST block; not returned = fall through to "return None"
_try_request_post(r) ==
    IF ~r.raised /\ r_ok(r) /\ r.body.json
    THEN [returned |-> TRUE, val |-> r.body.val]
    ELSE [returned |-> FALSE, val |-> Null]

-----------------------------------------------------------------------------
(* fetch_announcements: m is the program state of one facade request, q the *)
(* query of that request, now the current date                             *)

NoResponse   == [kind |-> "none", val |-> <<>>]
JsonResponse(obj) == [kind |-> "json", val |-> obj]
\* the handler raised: the framework answers without a JSON object of the handler
Unhandled(e) == [kind |-> "exception", val |-> e]

Variants(m, q) ==
    _param_variants(q.segment, q.submission_type, m.f, m.t, m.page,
                    q.search, q.category, q.subcategory)

\* a fetch loop without the short-page return
IsLastPage_never(rows_raw) == FALSE

\* "if len(rows_raw) < 20: return all_rows"
IsLastPage(rows_raw) == Len(rows_raw) < PAGE_SIZE

\* the body of the innermost loop, once _try_request has returned payload:
\* continue with the next variant, return all_rows, or raise
loop_body(m, payload) ==
    IF ~Truthy(payload) THEN [kind |-> "continue", m |-> m, val |-> ""]
    ELSE LET rows_raw == _extract_rows(payload) IN
         IF rows_raw = <<>> THEN [kind |-> "continue", m |-> m, val |-> ""]
         ELSE LET n == normalize_rows(rows_raw) IN
              IF ~n.ok THEN [kind |-> "raise", m |-> m, val |-> n.val]
              ELSE LET m1 == [m EXCEPT !.all_rows = m.all_rows \o n.val,
                                       !.got_any = TRUE]
                   IN  IF IsLastPage(rows_raw)
                       THEN [kind |-> "return", m |-> m1, val |-> ""]
                       ELSE [kind |-> "continue", m |-> m1, val |-> ""]

\* a fetch loop that reads one page beyond max_pages
loop_head_one_more(m) ==
    IF m.page <= m.max_pages + 1
    THEN [kind |-> "request",
          m |-> [m EXCEPT !.got_any = FALSE, !.url = 1, !.vi = 1], val |-> ""]
    ELSE [kind |-> "return", m |-> m, val |-> ""]

\* "while page <= max_pages: got_any = False; for url ...: for params ...:"
loop_head(m) ==
    IF m.page <= m.max_pages
    THEN [kind |-> "request",
          m |-> [m EXCEPT !.got_any = FALSE, !.url = 1, !.vi = 1], val |-> ""]
    ELSE [kind |-> "return", m |-> m, val |-> ""]

\* a fetch loop without "if not got_any: break"
loop_next_no_break(m, q) ==
    IF m.vi < Len(Variants(m, q))
    THEN [kind |-> "request", m |-> [m EXCEPT !.vi = m.vi + 1], val |-> ""]
    ELSE IF m.url < Len(ENDPOINTS)
    THEN [kind |-> "request", m |-> [m EXCEPT !.url = m.url + 1, !.vi = 1], val |-> ""]
    ELSE loop_head([m EXCEPT !.page = m.page + 1])

\* the next variant, the next endpoint, or the end of the page:
\* "if not got_any: break; page += 1"
loop_next(m, q) ==
    IF m.vi < Len(Variants(m, q))
    THEN [kind |-> "request", m |-> [m EXCEPT !.vi = m.vi + 1], val |-> ""]
    ELSE IF m.url < Len(ENDPOINTS)
    THEN [kind |-> "request", m |-> [m EXCEPT !.url = m.url + 1, !.vi = 1], val |-> ""]
    ELSE IF ~m.got_any THEN [kind |-> "return", m |-> m, val |-> ""]
    ELSE loop_head([m EXCEPT !.page = m.page + 1])

\* from the return of _try_request to the next upstream request or the end
after_payload(m, q, payload) ==
    LET b == loop_body(m, payload) IN
    IF b.kind = "continue" THEN loop_next(b.m, q) ELSE b

\* fetch_announcements up to its first upstream data request.  _session's
\* warm-up requests come before it; their failures are swallowed and nothing
\* of them is kept but cookies.
fetch_announcements(m, from_date, to_date, mp, now) ==
    LET m0 == [m EXCEPT !.calls = Append(m.calls,
                   [from_date |-> from_date, to_date |-> to_date, max_pages |-> mp])]
        fo == to_site_date(from_date, now)
        tt == to_site_date(to_date, now)
    IN  IF ~fo.ok THEN [kind |-> "raise", m |-> m0, val |-> fo.val]
        ELSE IF ~tt.ok THEN [kind |-> "raise", m |-> m0, val |-> tt.val]
        ELSE loop_head([m0 EXCEPT !.f = fo.val, !.t = tt.val, !.max_pages = mp,
                                  !.page = 1, !.all_rows = <<>>])

\* the value or the exception a finished call hands to its caller
Outcome(r) == IF r.kind = "return" THEN Ok(r.m.all_rows) ELSE Raise(r.val)

-----------------------------------------------------------------------------
(* The facades *)

\* the handler has answered; the locals of fetch_announcements are gone
Done(m, resp) == [m EXCEPT !.pc = "done", !.response = resp, !.all_rows = <<>>]

\* app.py get_bse, after fetch_announcements returned or raised
get_bse_finish(m, res) ==
    LET m1 == [m EXCEPT !.rets = Append(m.rets, res)] IN
    IF ~res.ok
    THEN Done(m1, JsonResponse([error |-> "Server crash", trace |-> res.val]))
    ELSE LET d == dedup("get_bse", res.val) IN
         IF ~d.ok
         THEN Done(m1, JsonResponse([error |-> "Server crash", trace |-> d.val]))
         ELSE Done(m1, JsonResponse([count |-> Len(d.val),
                                     rows  |-> Truncate(d.val, ROW_CAP)]))

\* api/bse.py today_only, from the deduplication on
today_only_finish(m, res, q, now) ==
    LET m1 == [m EXCEPT !.rets = Append(m.rets, res)] IN
    IF ~res.ok THEN Done(m1, Unhandled(res.val))
    ELSE LET d == dedup("today_only", res.val) IN
         IF ~d.ok THEN Done(m1, Unhandled(d.val))
         ELSE LET resp == [date  |-> today_ddmmyyyy_ist(now),
                           count |-> Len(d.val),
                           rows  |-> Truncate(d.val, ROW_CAP)]
              IN  IF q.diag
                  THEN Done(m1, JsonResponse(resp @@
                         [diag |-> [segment |-> q.segment,
                                    submission_type |-> q.submission_type,
                                    category |-> q.category,
                                    subcategory |-> q.subcategory,
                                    search |-> q.search,
                                    max_pages |-> q.max_pages,
                                    first_row |-> IF Len(d.val) > 0
                                                  THEN d.val[1] ELSE Null]]))
                  ELSE Done(m1, JsonResponse(resp))

\* a fallback that keeps the page budget of the first call
today_only_fallback_same_pages(m, res, q, now) ==
    IF res.ok /\ res.val = <<>>
    THEN LET fd == today_ddmmyyyy_ist(now)
             y  == strftime_dmy(PrevDay(strptime(fd, "%d/%m/%Y")))
             m1 == [m EXCEPT !.rets = Append(m.rets, res)]
             r  == fetch_announcements(m1, y, fd, q.max_pages, now)
         IN  IF r.kind = "request" THEN [r.m EXCEPT !.pc = "GET"]
             ELSE today_only_finish(r.m, Outcome(r), q, now)
    ELSE today_only_finish(m, res, q, now)

\* api/bse.py today_only, after the first _call: "if not rows:" widens the
\* window to (today - 1 day .. today) with two more pages
today_only_fallback(m, res, q, now) ==
    IF res.ok /\ res.val = <<>>
    THEN LET fd == today_ddmmyyyy_ist(now)
             y  == strftime_dmy(PrevDay(strptime(fd, "%d/%m/%Y")))
             m1 == [m EXCEPT !.rets = Append(m.rets, res)]
             r  == fetch_announcements(m1, y, fd, q.max_pages + EXTRA_PAGES, now)
         IN  IF r.kind = "request" THEN [r.m EXCEPT !.pc = "GET"]
             ELSE today_only_finish(r.m, Outcome(r), q, now)
    ELSE today_only_finish(m, res, q, now)

\* the caller's code that runs when a call of fetch_announcements ends
resume(m, res, who, q, now) ==
    CASE who = "get_bse" -> get_bse_finish(m, res)
      [] who = "today_only" ->
           IF Len(m.calls) = 1 THEN today_only_fallback(m, res, q, now)
           ELSE today_only_finish(m, res, q, now)

\* the program state after a step of fetch_announcements
Settle(r, who, q, now) ==
    IF r.kind = "request" THEN [r.m EXCEPT !.pc = "GET"]
    ELSE resume(r.m, Outcome(r), who, q, now)

-----------------------------------------------------------------------------
(* State machine *)

\* the current date
Today     == [d |-> 1, m |-> 3, y |-> 2024]
OtherDays == {[d |-> 1, m |-> 1, y |-> 2025], [d |-> 15, m |-> 8, y |-> 2025]}

\* from_date / to_date strings a caller sends, as (from_date, to_date):
\* absent, each of the four formats, a day that does not exist, an unknown
\* separator
DatePairs ==
    {<<EmptyDateStr, EmptyDateStr>>,
     <<DateStr(2025, "-", 1, 1), DateStr(1, "/", 1, 2025)>>,
     <<DateStr(2025, "-", 2, 29), EmptyDateStr>>,
     <<DateStr(2025, ".", 1, 1), DateStr(2025, ".", 1, 1)>>,
     <<DateStr(31, "-", 12, 2024), DateStr(1, "/", 13, 2025)>>,
     <<DateStr(2025, "/", 1, 1), DateStr(2025, "/", 1, 32)>>}

Query(from_date, to_date, mp, diag) ==
    [from_date |-> from_date, to_date |-> to_date, segment |-> "C",
     submission_type |-> "0", category |-> "", subcategory |-> "",
     search |-> "", max_pages |-> mp, diag |-> diag]

NoShort == [page |-> 0, before |-> <<>>, rows |-> <<>>]

M == [pc |-> pc, calls |-> calls, rets |-> rets, f |-> f, t |-> t,
      max_pages |-> max_pages, page |-> page, url |-> url, vi |-> vi,
      got_any |-> got_any, all_rows |-> all_rows, response |-> response]

Apply(m) ==
    /\ pc' = m.pc
    /\ calls' = m.calls
    /\ rets' = m.rets
    /\ f' = m.f
    /\ t' = m.t
    /\ max_pages' = m.max_pages
    /\ page' = m.page
    /\ url' = m.url
    /\ vi' = m.vi
    /\ got_any' = m.got_any
    /\ all_rows' = m.all_rows
    /\ response' = m.response

Init ==
    /\ \/ today = Today /\ store \in Stores
       \/ today \in OtherDays /\ store \in {st \in Stores : st.n <= 5}
    /\ handler = "none"
    /\ pc = "idle"
    /\ arg = <<>>
    /\ calls = <<>>
    /\ rets = <<>>
    /\ f = EmptyDateStr
    /\ t = EmptyDateStr
    /\ max_pages = 0
    /\ page = 0
    /\ url = 0
    /\ vi = 0
    /\ got_any = FALSE
    /\ all_rows = <<>>
    /\ naccum = 0
    /\ yielded_pages = {}
    /\ page_start_len = 0
    /\ req_pages = <<>>
    /\ short_seen = NoShort
    /\ exch = <<>>
    /\ response = NoResponse

\* the max_pages values of the requests; an upstream with as many rows as
\* the row cap is read with max_pages = 1
PagesAsked == IF store.n >= ROW_CAP THEN {1} ELSE 1..MaxPagesIn

\* GET /bse
get_bse ==
    /\ pc = "idle"
    /\ \E dates \in DatePairs, mp \in PagesAsked :
         LET from_date == dates[1]
             to_date   == dates[2]
             q         == Query(from_date, to_date, mp, FALSE)
         IN
         /\ arg' = q
         /\ \E m \in {Settle(fetch_announcements(M, from_date, to_date, mp, today),
                             "get_bse", q, today)} : Apply(m)
    /\ handler' = "get_bse"
    /\ UNCHANGED <<today, store, naccum, req_pages, yielded_pages, page_start_len,
                   short_seen, exch>>

\* GET /bse when "from scrapper_bse import fetch_announcements" fails
get_bse_import_error ==
    /\ pc = "idle"
    /\ \E dates \in DatePairs, mp \in 1..MaxPagesIn :
         arg' = Query(dates[1], dates[2], mp, FALSE)
    /\ handler' = "get_bse"
    /\ Apply(Done(M, JsonResponse([error |-> "Server crash", trace |-> "RuntimeError"])))
    /\ UNCHANGED <<today, store, naccum, req_pages, yielded_pages, page_start_len,
                   short_seen, exch>>

\* GET /api/bse
today_only ==
    /\ pc = "idle"
    /\ \E mp \in PagesAsked, diag \in BOOLEAN :
         LET q  == Query(EmptyDateStr, EmptyDateStr, mp, diag)
             fd == today_ddmmyyyy_ist(today)
         IN  /\ arg' = q
             /\ \E m \in {Settle(fetch_announcements(M, fd, fd, mp, today),
                                 "today_only", q, today)} : Apply(m)
    /\ handler' = "today_only"
    /\ UNCHANGED <<today, store, naccum, req_pages, yielded_pages, page_start_len,
                   short_seen, exch>>

\* _try_request called on its own
call_try_request ==
    /\ pc = "idle"
    /\ handler' = "_try_request"
    /\ \E pg \in 1..MaxPagesIn : page' = pg
    /\ pc' = "GET"
    /\ url' = 1
    /\ vi' = 1
    /\ arg' = Query(EmptyDateStr, EmptyDateStr, 1, FALSE)
    /\ UNCHANGED <<today, store, calls, rets, f, t, max_pages, got_any, all_rows,
                   naccum, req_pages, yielded_pages, page_start_len, short_seen,
                   exch, response>>

\* the rows an attempt yields: "if not payload: continue" and _extract_rows
Yielded(payload) == IF Truthy(payload) THEN _extract_rows(payload) ELSE <<>>

\* the call of fetch_announcements took rows in during the step that led to m
TookRows(m) ==
    IF m.pc = "done"
    THEN m.rets[Len(m.rets)].ok /\ m.rets[Len(m.rets)].val # all_rows
    ELSE m.all_rows # all_rows

\* _try_request has returned payload to its caller
Deliver(payload, first) ==
    IF handler = "_try_request"
    THEN /\ pc' = "done"
         /\ response' = [kind |-> "value", val |-> payload]
         /\ UNCHANGED <<calls, rets, f, t, max_pages, page, url, vi, got_any,
                        all_rows, naccum, yielded_pages, short_seen>>
    ELSE \E m \in {Settle(after_payload(M, arg, payload), handler, arg, today)} :
         LET y == Yielded(payload) IN
             /\ Apply(m)
             /\ naccum' = (IF first THEN 0 ELSE naccum)
                          + (IF TookRows(m) THEN 1 ELSE 0)
             /\ yielded_pages' = (IF first /\ page = 1 THEN {} ELSE yielded_pages)
                                  \cup (IF Len(y) > 0 THEN {page} ELSE {})
             /\ short_seen' =
                  IF 0 < Len(y) /\ Len(y) < PAGE_SIZE
                  THEN [page |-> page, before |-> all_rows, rows |-> y]
                  ELSE IF first /\ page = 1 THEN NoShort ELSE short_seen

\* the request is kept when _try_request is called on its own
Exchange(method, r) ==
    IF handler = "_try_request"
    THEN Append(exch, [method |-> method, r |-> r])
    ELSE exch

\* sess.get(url, params=params, timeout=25) and what follows its response
TryGet ==
    /\ pc = "GET"
    /\ \E reply \in RepliesTo(handler) :
       \E r \in {Response(reply, Slice(store, page))} :
       \E a \in {_try_request_get(r)} :
         LET first == (url = 1 /\ vi = 1)
         IN  /\ req_pages' = IF ~first THEN req_pages
                             ELSE IF page = 1 THEN <<1>>
                             ELSE Append(req_pages, page)
             /\ page_start_len' = IF first THEN Len(all_rows) ELSE page_start_len
             /\ exch' = Exchange("GET", r)
             /\ IF a.returned
                THEN Deliver(a.val, first)
                ELSE /\ pc' = "POST"
                     /\ naccum' = IF first THEN 0 ELSE naccum
                     /\ yielded_pages' = IF first /\ page = 1 THEN {} ELSE yielded_pages
                     /\ short_seen' = IF first /\ page = 1 THEN NoShort ELSE short_seen
                     /\ UNCHANGED <<calls, rets, f, t, max_pages, page, url, vi,
                                    got_any, all_rows, response>>
    /\ UNCHANGED <<today, store, handler, arg>>

\* sess.post(url, data=params, ...) and what follows its response
TryPost ==
    /\ pc = "POST"
    /\ \E reply \in RepliesTo(handler) :
       \E r \in {Response(reply, Slice(store, page))} :
       \E a \in {_try_request_post(r)} :
         /\ exch' = Exchange("POST", r)
         /\ Deliver(IF a.returned THEN a.val ELSE Null, FALSE)
    /\ UNCHANGED <<today, store, handler, arg, req_pages, page_start_len>>

\* the deduplication loops called on their own
DedupIds == {Str("A"), Str("B"), Str(""), Null}
DedupRowsIn ==
    {[normalize_row(IdRow(Str("A"))) EXCEPT !.news_id = id, !.headline = Str(h)] :
        id \in DedupIds, h \in {"first", "second"}}
RowLists == UNION {[1..n -> DedupRowsIn] : n \in 0..MaxLen}

call_dedup ==
    /\ pc = "idle"
    /\ \E who \in {"get_bse", "today_only", "main"}, rows \in RowLists :
         /\ arg' = [who |-> who, rows |-> rows]
         /\ response' = [kind |-> "value", val |-> dedup(who, rows)]
    /\ handler' = "dedup"
    /\ pc' = "done"
    /\ UNCHANGED <<today, store, calls, rets, f, t, max_pages, page, url, vi,
                   got_any, all_rows, naccum, req_pages, yielded_pages,
                   page_start_len, short_seen, exch>>

\* _extract_rows called on its own: what a payload holds under a key
Absent == [t |-> "absent", v |-> 0]
Holds(k) ==
    {Absent, List(<<Str(k)>>), List(<<>>), Str("text"),
     Dict([Table |-> List(<<Str(k \o ".Table")>>)])}
    \cup (IF k = "d" THEN {Dict([Table |-> Str("text")]),
                           Dict([data |-> List(<<Str("d.data")>>)])}
          ELSE {})
PayloadKeys == {"Table", "table", "data", "Data", "d", "rows"}
PayloadOf(h) == Dict([k \in {k \in PayloadKeys : h[k] # Absent} |-> h[k]])
NoObject == {Null, List(<<Str("x")>>), Str("Table"), Num(3)}

call_extract_rows ==
    /\ pc = "idle"
    /\ \/ \E a \in Holds("Table"), b \in Holds("table"), c \in Holds("data"),
             d \in Holds("Data"), e \in Holds("d"), g \in {Absent, List(<<Str("rows")>>)} :
            arg' = [payload |-> PayloadOf([Table |-> a, table |-> b, data |-> c,
                                           Data |-> d, d |-> e, rows |-> g])]
       \/ \E p \in NoObject : arg' = [payload |-> p]
    /\ response' = [kind |-> "value", val |-> _extract_rows(arg'.payload)]
    /\ handler' = "_extract_rows"
    /\ pc' = "done"
    /\ UNCHANGED <<today, store, calls, rets, f, t, max_pages, page, url, vi,
                   got_any, all_rows, naccum, req_pages, yielded_pages,
                   page_start_len, short_seen, exch>>

-----------------------------------------------------------------------------
(* Specifications *)

\* the facades
Next == get_bse \/ get_bse_import_error \/ today_only \/ TryGet \/ TryPost

Spec == Init /\ [][Next]_vars

\* the units on their own
InitUnit == Init /\ today = Today /\ store.n = 0

NextTry == call_try_request \/ TryGet \/ TryPost

InitTry == Init /\ today = Today

SpecTry == InitTry /\ [][NextTry]_vars

SpecDedup == InitUnit /\ [][call_dedup]_vars

SpecExtract == InitUnit /\ [][call_extract_rows]_vars

-----------------------------------------------------------------------------
(* Properties *)

Facade  == handler \in {"get_bse", "today_only"}
InFetch == Facade /\ pc \in {"GET", "POST"}
LastRet == rets[Len(rets)]

\* C1: within one call of fetch_announcements the rows of at most one attempt
\* (endpoint, parameter variant) are accumulated for any page number; once an
\* attempt has yielded rows for a page, no later attempt for that page adds
\* rows
C1_OneAttemptPerPage == Facade => naccum <= 1

\* C2: once an attempt for page p yields a non-empty list of fewer than 20
\* rows, fetch_announcements returns at once: the handler runs to its end
\* with no further upstream request, p is the last page requested, and the
\* value returned is the rows accumulated before that attempt followed by the
\* normalized rows of that attempt
C2_ShortPageReturns ==
    (Facade /\ short_seen.page # 0) =>
        /\ pc = "done"
        /\ Len(rets) = Len(calls)
        /\ req_pages[Len(req_pages)] = short_seen.page
        /\ normalize_rows(short_seen.rows).ok =>
               LastRet = Ok(short_seen.before \o normalize_rows(short_seen.rows).val)

C2_Witness ==
    /\ Facade
    /\ pc = "done"
    /\ short_seen.page = 2
    /\ LastRet.ok
    /\ Len(LastRet.val) > PAGE_SIZE

\* C3: every request to get_bse or today_only ends with a JSON object that
\* carries a row list, whatever the dates and the upstream do, and that list
\* is empty when the call of fetch_announcements did not return rows
C3_FacadeAlwaysAnswersRows ==
    (Facade /\ pc = "done") =>
        /\ response.kind = "json"
        /\ "rows" \in DOMAIN response.val
        /\ (Len(rets) = 0 \/ ~LastRet.ok \/ LastRet.val = <<>>) =>
               response.val.rows = <<>>

FirstAt(in, id) ==
    CHOOSE i \in DOMAIN in :
        in[i].news_id = id /\ \A j \in 1..(i - 1) : in[j].news_id # id

\* C4: each deduplication loop (get_bse, today_only, the CLI) returns a
\* subsequence of its input: every kept row has a non-empty news_id, no two
\* kept rows share a news_id, each kept row is the first input row with its
\* news_id, kept rows stand in input order, and every non-empty news_id of
\* the input is kept exactly once
C4_Dedup ==
    (handler = "dedup" /\ pc = "done") =>
        LET in == arg.rows IN
        /\ response.val.ok
        /\ LET out == response.val.val IN
           /\ \A k \in DOMAIN out : out[k].news_id \notin {Null, Str("")}
           /\ \A k, l \in DOMAIN out : k # l => out[k].news_id # out[l].news_id
           /\ \A k \in DOMAIN out : \E i \in DOMAIN in : in[i].news_id = out[k].news_id
           /\ \A k \in DOMAIN out : out[k] = in[FirstAt(in, out[k].news_id)]
           /\ \A k, l \in DOMAIN out :
                  k < l => FirstAt(in, out[k].news_id) < FirstAt(in, out[l].news_id)
           /\ \A i \in DOMAIN in :
                  in[i].news_id \notin {Null, Str("")} =>
                      Cardinality({k \in DOMAIN out : out[k].news_id = in[i].news_id}) = 1

C4_Witness ==
    /\ handler = "dedup"
    /\ pc = "done"
    /\ arg.who = "main"
    /\ Len(arg.rows) = 4
    /\ arg.rows[1].news_id = Null
    /\ arg.rows[2].news_id = arg.rows[4].news_id
    /\ arg.rows[2] # arg.rows[4]
    /\ response.val.ok
    /\ Len(response.val.val) = 2
    /\ response.val.val[1] = arg.rows[2]

\* C5: when the last of the 2 x 3 attempts for page p is over and no attempt
\* for p has yielded rows, the call of fetch_announcements ends in that step:
\* it returns, without raising, exactly the rows it held when page p began,
\* p is the last page it requested, and for p = 1 the value is the empty list
C5_EmptyPageEnds ==
    [][ (/\ InFetch
         /\ url = 2 /\ vi = 3
         /\ (pc = "POST" \/ pc' # "POST")
         /\ page \notin yielded_pages')
        => /\ Len(rets') = Len(rets) + 1
           /\ rets'[Len(rets')] = Ok(all_rows)
           /\ Len(all_rows) = page_start_len
           /\ req_pages'[Len(req_pages')] = page
           /\ (page = 1 => rets'[Len(rets')] = Ok(<<>>) /\ req_pages' = <<1>>) ]_vars

C5_Witness ==
    /\ Facade
    /\ pc = "done"
    /\ page = 2 /\ url = 2 /\ vi = 3
    /\ 2 \notin yielded_pages
    /\ LastRet.ok
    /\ Len(LastRet.val) >= PAGE_SIZE

\* an attempt succeeds: it did not raise, its status is no error status
\* 400..599 (the first) or lies in 200..299 (the second), and its body parses
\* as JSON
Succeeds(r)    == ~r.raised /\ ~(400 <= r.status_code /\ r.status_code < 600) /\ r.body.json
Succeeds2xx(r) == ~r.raised /\ r.status_code \in 200..299 /\ r.body.json

\* _try_request under a notion S of success: the GET comes first, the POST
\* follows if and only if the GET did not succeed, the value returned is the
\* parsed body of the first attempt that succeeds, None when neither does,
\* and no exception leaves the function
TryRequestContract(S(_)) ==
    handler = "_try_request" =>
        /\ Len(exch) <= 2
        /\ pc = "GET" => exch = <<>>
        /\ Len(exch) >= 1 => exch[1].method = "GET"
        /\ Len(exch) = 2 => exch[2].method = "POST"
        /\ pc = "POST" => Len(exch) = 1 /\ ~S(exch[1].r)
        /\ pc = "done" =>
             /\ Len(exch) >= 1
             /\ Len(exch) = 2 <=> ~S(exch[1].r)
             /\ response.kind = "value"
             /\ response.val =
                  IF S(exch[1].r) THEN exch[1].r.body.val
                  ELSE IF S(exch[2].r) THEN exch[2].r.body.val
                  ELSE Null

\* C6: _try_request issues the GET first and the POST if and only if the GET
\* raised, returned an error status (400 to 599, Response.ok false) or a
\* body that does not parse as JSON; it returns the parsed body of the first
\* attempt that succeeds, None when both fail, and never raises
C6_TryRequest == TryRequestContract(Succeeds)

\* C6 as stated: the POST is issued if and only if the GET raised, returned a
\* status outside 200..299, or a body that does not parse as JSON
C6_TryRequest2xx == TryRequestContract(Succeeds2xx)

C6_Witness ==
    /\ handler = "_try_request"
    /\ pc = "done"
    /\ Len(exch) = 1
    /\ exch[1].r.status_code = 300
    /\ response.val.t = "dict"

\* the upstream holds 1..200 rows with distinct non-empty ids in one page
OnePage ==
    /\ store.kind = "plain"
    /\ store.n \in 1..ROW_CAP
    /\ store.n <= store.psize

\* C7: when the upstream holds n rows (1 <= n <= 200, distinct non-empty
\* news_id) in a single page and some attempt for page 1 yields them, the
\* facade answers count = n and exactly those n normalized rows in upstream
\* order, however many attempts returned them; no answer carries more than
\* 200 rows
C7_CountEqualsRows ==
    (Facade /\ pc = "done") =>
        /\ (response.kind = "json" /\ "rows" \in DOMAIN response.val) =>
               Len(response.val.rows) <= 200
        /\ (OnePage /\ 1 \in yielded_pages) =>
               /\ response.kind = "json"
               /\ "count" \in DOMAIN response.val
               /\ response.val.count = store.n
               /\ response.val.rows =
                      [i \in 1..store.n |-> normalize_row(StoreRow(store, i))]

C7_Witness ==
    /\ Facade
    /\ pc = "done"
    /\ store.kind = "plain"
    /\ store.n = 200
    /\ naccum >= 2
    /\ response.kind = "json"
    /\ response.val.count = 200

\* what a payload holds as its i-th candidate row list
Candidate(p, i) ==
    IF i <= 4
    THEN LET k == <<"Table", "table", "data", "Data">>[i] IN
         IF k \in DOMAIN p.v THEN p.v[k] ELSE Absent
    ELSE IF "d" \in DOMAIN p.v /\ p.v["d"].t = "dict" /\ "Table" \in DOMAIN p.v["d"].v
         THEN p.v["d"].v["Table"]
         ELSE Absent

\* C8: _extract_rows returns the value of the first of Table, table, data,
\* Data, then d.Table, that is present and a list (a non-list value is passed
\* over, an empty list is taken), and the empty list when there is none or
\* the payload is no JSON object
C8_ExtractRows ==
    (handler = "_extract_rows" /\ pc = "done") =>
        LET p   == arg.payload
            out == response.val
        IN  IF p.t # "dict" THEN out = <<>>
            ELSE LET firsts == {i \in 1..5 :
                                  /\ Candidate(p, i).t = "list"
                                  /\ \A j \in 1..(i - 1) : Candidate(p, j).t # "list"}
                 IN  IF firsts = {} THEN out = <<>>
                     ELSE \A i \in firsts : out = Candidate(p, i).v

C8_Witness ==
    /\ handler = "_extract_rows"
    /\ pc = "done"
    /\ arg.payload.t = "dict"
    /\ DOMAIN arg.payload.v = {"Table", "data", "Data", "d"}
    /\ arg.payload.v["Table"].t = "str"
    /\ arg.payload.v["data"] = List(<<>>)
    /\ arg.payload.v["Data"] = List(<<Str("Data")>>)
    /\ response.val = <<>>

\* the day before each current date of the model, dd/mm/YYYY
Yesterday ==
    CASE today = [d |-> 1,  m |-> 3, y |-> 2024] -> DateStr(29, "/", 2, 2024)
      [] today = [d |-> 1,  m |-> 1, y |-> 2025] -> DateStr(31, "/", 12, 2024)
      [] today = [d |-> 15, m |-> 8, y |-> 2025] -> DateStr(14, "/", 8, 2025)

\* C9: a request to today_only calls fetch_announcements once or twice: first
\* with from = to = today and the request's max_pages; a second time, with
\* from = today - 1 day, to = today and max_pages + 2, if and only if the
\* first call returned the empty list; after a second call every row of the
\* answer is a row that call returned
C9_TodayOnlyFallback ==
    handler = "today_only" =>
        LET td == DateStr(today.d, "/", today.m, today.y) IN
        /\ Len(calls) \in 1..2
        /\ calls[1] = [from_date |-> td, to_date |-> td, max_pages |-> arg.max_pages]
        /\ Len(calls) = 2 <=> (Len(rets) >= 1 /\ rets[1] = Ok(<<>>))
        /\ Len(calls) = 2 =>
               calls[2] = [from_date |-> Yesterday, to_date |-> td,
                           max_pages |-> arg.max_pages + 2]
        /\ (pc = "done" /\ Len(calls) = 2 /\ response.kind = "json") =>
               /\ Len(rets) = 2
               /\ rets[2].ok
               /\ \A i \in DOMAIN response.val.rows :
                      \E j \in DOMAIN rets[2].val :
                          rets[2].val[j] = response.val.rows[i]

C9_Witness ==
    /\ handler = "today_only"
    /\ pc = "done"
    /\ Len(calls) = 2
    /\ response.kind = "json"
    /\ response.val.count > 0

\* the place of the pending request among the 12 of its page
Slot == ((url - 1) * 3 + (vi - 1)) * 2 + (IF pc = "POST" THEN 2 ELSE 1)

\* the pages requested so far are 1, 2, ..., k with k <= max_pages, and the
\* pending request is one of the 2 x 3 x 2 of page k or the first of page k + 1
PagesInOrder ==
    Facade =>
        /\ \A i \in DOMAIN req_pages : req_pages[i] = i
        /\ InFetch =>
             /\ page \in 1..max_pages
             /\ url \in 1..2
             /\ vi \in 1..3
             /\ IF pc = "GET" /\ url = 1 /\ vi = 1
                THEN page = 1 \/ Len(req_pages) = page - 1
                ELSE Len(req_pages) = page

\* C10: every call of fetch_announcements ends, because each upstream request
\* (which returns or raises within its timeout) moves the call strictly
\* forward in the order (page, slot), which is bounded by (max_pages, 12); it
\* requests the pages 1, 2, 3, ... in order, none skipped and none beyond
\* max_pages; and the requests for one page take the 12 slots (endpoint,
\* variant, GET then POST) in strictly ascending order, so there are at most
\* 12 of them
C10_TerminatesInOrder ==
    /\ []PagesInOrder
    /\ [][ (InFetch /\ Len(calls') = Len(calls)) =>
             \/ pc' = "done"
             \/ InFetch' /\ page' = page /\ Slot' > Slot
             \/ InFetch' /\ page' = page + 1 /\ Slot' = 1 ]_vars

C10_Witness ==
    /\ InFetch
    /\ page = max_pages
    /\ req_pages = <<1, 2>>
    /\ Slot = 12

====
